---- MODULE Spec2Model ----
(***************************************************************************)
(* NetScope: the usage aggregation engine (app/services/usage_service.py)  *)
(* over the record store filled by the ingestion pipeline                  *)
(* (app/services/ingestion.py), with their callers: the endpoints of       *)
(* app/routers/users.py and app/routers/upload.py and the command-line     *)
(* script scripts/ingest.py.                                               *)
(*                                                                         *)
(* Units.  An instant is a whole number of days.  A data volume held in    *)
(* the store is a whole number of eighths of a kilobit: such values and    *)
(* their sums are exact binary floats, so Python's round(x, 2) on them is  *)
(* exact round-half-even.  A volume as returned in a UsagePeriod is a      *)
(* whole number of hundredths of a kilobit (the two decimals of the        *)
(* output).  A string is a sequence of one-character strings.              *)
(***************************************************************************)
EXTENDS Integers, Sequences, FiniteSets, TLC

VARIABLES store, ing, calls, req

vars == <<store, ing, calls, req>>

(* ------------------------------ bounds -------------------------------- *)

\* most records the store holds
MaxRecords == 4

\* largest batch_size an ingestion is started with
MaxBatch == 2

\* largest page number requested
MaxPage == 2

\* largest per_page requested
MaxPerPage == 2

\* most answers remembered of one run of queries against an unchanged store
MaxCalls == 2

\* longest usage_time text of which every variant is parsed
MaxTimeLen == 6

(* ------------------------------ inputs -------------------------------- *)

\* reference instants of the queries
RefDates == {31, 32}

\* usernames asked of get_user_details: stored ones, a case variant, an
\* untrimmed variant and one never ingested
QueryNames == {<<"a">>, <<"A">>, <<"a", " ">>, <<"b">>, <<"c">>}

Num(v) == [num |-> TRUE, val |-> v]

NotNum == [num |-> FALSE, val |-> 0]

At(t) == [ok |-> TRUE, t |-> t]

BadDate == [ok |-> FALSE, t |-> 0]

\* the usage_time text "h:m:s", already cut at the colons
Hms(h, m, s) == <<Num(h), Num(m), Num(s)>>

RawRow(u, mac, st, ut, up, dn) ==
    [username |-> u, mac_address |-> mac, start_time |-> st,
     usage_time |-> ut, upload |-> up, download |-> dn]

Mac1 == <<"0", "1">>

\* The CSV files offered to ingest_data.  File 1: two users tied on their
\* 30-day total, volumes with a third decimal, a record exactly 30 days
\* before instant 31.  File 2: a negative upload (the command-line script
\* does not screen it).  File 3: an untrimmed username, a record later
\* than instant 31, a user outside every window.  File 4: header only.
\* File 5: a required column missing.  File 6: a non-numeric upload.
\* File 7: a malformed usage_time.  File 8: a malformed start_time.
Csvs ==
    << [cols_ok |-> TRUE, rows |->
          << RawRow(<<"a">>, Mac1, At(31), Hms(0, 1, 0), Num(1), Num(1)),
             RawRow(<<"A">>, Mac1, At(24), Hms(1, 0, 0), Num(2), Num(0)),
             RawRow(<<"b">>, Mac1, At(1), Hms(0, 0, 59), Num(8), Num(16)) >>],
       [cols_ok |-> TRUE, rows |->
          << RawRow(<<"a">>, Mac1, At(25), Hms(0, 0, 1), Num(-16), Num(0)) >>],
       [cols_ok |-> TRUE, rows |->
          << RawRow(<<" ", "a", " ">>, <<" ", "0", "1">>, At(32), Hms(2, 0, 0),
                    Num(3), Num(5)),
             RawRow(<<"b">>, Mac1, At(0), Hms(0, 59, 59), Num(8), Num(8)) >>],
       [cols_ok |-> TRUE, rows |-> << >>],
       [cols_ok |-> FALSE, rows |->
          << RawRow(<<"a">>, Mac1, At(31), Hms(0, 1, 0), Num(1), Num(1)) >>],
       [cols_ok |-> TRUE, rows |->
          << RawRow(<<"a">>, Mac1, At(31), Hms(0, 1, 0), NotNum, Num(1)) >>],
       [cols_ok |-> TRUE, rows |->
          << RawRow(<<"a">>, Mac1, At(31), <<Num(0), Num(60), Num(0)>>,
                    Num(1), Num(1)) >>],
       [cols_ok |-> TRUE, rows |->
          << RawRow(<<"a">>, Mac1, BadDate, Hms(0, 1, 0), Num(1), Num(1)) >> ] >>

(* --------------------------- ingestion.py ----------------------------- *)

\* result of a function that raised ValueError
ValueError == -1

IsSpace(c) == c = " "

RECURSIVE LStrip(_)
LStrip(s) ==
    IF s # << >> /\ IsSpace(Head(s)) THEN LStrip(Tail(s)) ELSE s

RECURSIVE RStrip(_)
RStrip(s) ==
    IF s # << >> /\ IsSpace(s[Len(s)]) THEN RStrip(SubSeq(s, 1, Len(s) - 1)) ELSE s

\* str.strip()
Strip(s) == RStrip(LStrip(s))

\* parse_usage_time without the upper limit of the minutes
ParseUsageTimeAnyMinutes(parts) ==
    IF Len(parts) # 3 THEN ValueError
    ELSE IF \E k \in 1..3 : ~parts[k].num THEN ValueError
    ELSE LET hours == parts[1].val
             minutes == parts[2].val
             seconds == parts[3].val
         IN  IF minutes < 0 \/ seconds < 0 \/ seconds > 59 \/ hours < 0
             THEN ValueError
             ELSE hours * 3600 + minutes * 60 + seconds

\* parse_usage_time on the colon-separated parts of the text
parse_usage_time(parts) ==
    IF Len(parts) # 3 THEN ValueError
    ELSE IF \E k \in 1..3 : ~parts[k].num THEN ValueError
    ELSE LET hours == parts[1].val
             minutes == parts[2].val
             seconds == parts[3].val
         IN  IF minutes < 0 \/ minutes > 59 \/ seconds < 0 \/ seconds > 59 \/ hours < 0
             THEN ValueError
             ELSE hours * 3600 + minutes * 60 + seconds

Digits == <<"0", "1", "2", "3", "4", "5", "6", "7", "8", "9">>

IsDigit(ch) == \E k \in 1..10 : Digits[k] = ch

DigitVal(ch) == (CHOOSE k \in 1..10 : Digits[k] = ch) - 1

\* the value of a text of decimal digits
RECURSIVE Decimal(_)
Decimal(s) ==
    IF s = << >> THEN 0
    ELSE 10 * Decimal(SubSeq(s, 1, Len(s) - 1)) + DigitVal(s[Len(s)])

\* str.split(sep)
RECURSIVE Split(_, _)
Split(s, sep) ==
    IF \E k \in 1..Len(s) : s[k] = sep
    THEN LET k == CHOOSE j \in 1..Len(s) :
                      s[j] = sep /\ \A h \in 1..(j - 1) : s[h] # sep
         IN  <<SubSeq(s, 1, k - 1)>> \o Split(SubSeq(s, k + 1, Len(s)), sep)
    ELSE <<s>>

\* int(text) inside try/except: blanks around the number are skipped, one
\* sign may come first, then decimal digits and nothing else
IntOf(text) ==
    LET t == Strip(text)
        signed == t # << >> /\ t[1] \in {"+", "-"}
        digits == IF signed THEN Tail(t) ELSE t
    IN  IF digits # << >> /\ \A k \in 1..Len(digits) : IsDigit(digits[k])
        THEN Num(IF signed /\ t[1] = "-" THEN 0 - Decimal(digits)
                 ELSE Decimal(digits))
        ELSE NotNum

\* parse_usage_time on the text itself: strip, split at the colons, int
ParseUsageTimeText(time_str) ==
    LET parts == Split(Strip(time_str), ":")
    IN  parse_usage_time([k \in 1..Len(parts) |-> IntOf(parts[k])])

\* validate_dataframe: every required column is present
validate_dataframe(csv) == csv.cols_ok

\* TransformRow taking the upload alone as the total
TransformRowUploadOnly(r) ==
    [username |-> Strip(r.username),
     mac_address |-> Strip(r.mac_address),
     start_time |-> r.start_time.t,
     usage_time_seconds |-> parse_usage_time(r.usage_time),
     upload_kb |-> r.upload.val,
     download_kb |-> r.download.val,
     total_kb |-> r.upload.val]

\* the transformation of one CSV row into the mapping that is inserted
TransformRow(r) ==
    [username |-> Strip(r.username),
     mac_address |-> Strip(r.mac_address),
     start_time |-> r.start_time.t,
     usage_time_seconds |-> parse_usage_time(r.usage_time),
     upload_kb |-> r.upload.val,
     download_kb |-> r.download.val,
     total_kb |-> r.upload.val + r.download.val]

\* the transformation raises: pd.to_datetime, parse_usage_time, or the
\* check for NaN after pd.to_numeric(errors="coerce")
TransformRaises(rows) ==
    \E k \in 1..Len(rows) :
        \/ ~rows[k].start_time.ok
        \/ parse_usage_time(rows[k].usage_time) = ValueError
        \/ ~rows[k].upload.num
        \/ ~rows[k].download.num

\* the list `records` of ingest_data
Records(c) == [k \in 1..Len(Csvs[c].rows) |-> TransformRow(Csvs[c].rows[k])]

Min(a, b) == IF a < b THEN a ELSE b

Idle == [pc |-> "idle", csv |-> 0, batch_size |-> 0, clear_existing |-> FALSE,
         i |-> 0, total_inserted |-> 0, batch_num |-> 0]

\* Outcome without the early return for a file without data rows
OutcomeNoEmptyCheck(csv) ==
    IF ~validate_dataframe(csv) THEN "ValueError"
    ELSE IF TransformRaises(csv.rows) THEN "ValueError"
    ELSE "proceed"

\* how ingest_data leaves its first part, which writes nothing: it raises
\* ValueError (validate_dataframe or the transformation), returns 0 for a
\* file without data rows, or goes on
Outcome(csv) ==
    IF ~validate_dataframe(csv) THEN "ValueError"
    ELSE IF csv.rows = << >> THEN "return 0"
    ELSE IF TransformRaises(csv.rows) THEN "ValueError"
    ELSE "proceed"

\* IngestBegin with the delete of the existing records moved ahead of the
\* validation
IngestBeginClearFirst(c, batch_size, clear_existing) ==
    /\ ing.pc = "idle"
    /\ IF Outcome(Csvs[c]) # "proceed"
       THEN /\ ing' = Idle
            /\ store' = IF clear_existing THEN << >> ELSE store
       ELSE /\ Len(Csvs[c].rows) + (IF clear_existing THEN 0 ELSE Len(store))
                <= MaxRecords
            /\ ing' = [pc |-> IF clear_existing THEN "clear" ELSE "insert",
                       csv |-> c, batch_size |-> batch_size,
                       clear_existing |-> clear_existing,
                       i |-> 0, total_inserted |-> 0, batch_num |-> 0]
            /\ store' = store

\* ingest_data up to its first write: it raises, returns 0 for a file
\* without data rows, or goes on to the clear or to the first batch
IngestBegin(c, batch_size, clear_existing) ==
    /\ ing.pc = "idle"
    /\ IF Outcome(Csvs[c]) # "proceed"
       THEN ing' = Idle
       ELSE /\ Len(Csvs[c].rows) + (IF clear_existing THEN 0 ELSE Len(store))
                <= MaxRecords
            /\ ing' = [pc |-> IF clear_existing THEN "clear" ELSE "insert",
                       csv |-> c, batch_size |-> batch_size,
                       clear_existing |-> clear_existing,
                       i |-> 0, total_inserted |-> 0, batch_num |-> 0]
    /\ store' = store

\* a call of ingest_data whose caller is not followed further
IngestStart(c, batch_size, clear_existing) ==
    /\ IngestBegin(c, batch_size, clear_existing)
    /\ UNCHANGED <<calls, req>>

\* IngestClear leaving the records in place
IngestClearSkipped ==
    /\ ing.pc = "clear"
    /\ store' = store
    /\ ing' = [ing EXCEPT !.pc = "insert"]
    /\ calls' = {}
    /\ UNCHANGED req

\* session.execute(delete(UsageRecord)); session.commit()
IngestClear ==
    /\ ing.pc = "clear"
    /\ store' = << >>
    /\ ing' = [ing EXCEPT !.pc = "insert"]
    /\ calls' = {}
    /\ UNCHANGED req

\* Batch dropping the last record of the slice
BatchShort(records, i, batch_size) ==
    SubSeq(records, i + 1, Min(i + batch_size, Len(records)) - 1)

\* records[i : i + batch_size]
Batch(records, i, batch_size) ==
    SubSeq(records, i + 1, Min(i + batch_size, Len(records)))

\* one turn of the batch loop: bulk_insert_mappings and commit; after the
\* last turn the function is about to return total_inserted
IngestBatch ==
    /\ ing.pc = "insert"
    /\ ing.batch_size >= 1
    /\ LET records == Records(ing.csv)
           batch == Batch(records, ing.i, ing.batch_size)
           next == ing.i + ing.batch_size
       IN  /\ store' = store \o batch
           /\ ing' = IF next < Len(records)
                     THEN [ing EXCEPT !.i = next,
                                      !.total_inserted = @ + Len(batch),
                                      !.batch_num = (ing.i \div ing.batch_size) + 1]
                     ELSE [ing EXCEPT !.pc = "done",
                                      !.total_inserted = @ + Len(batch),
                                      !.batch_num = (ing.i \div ing.batch_size) + 1]
    /\ calls' = {}
    /\ UNCHANGED req

\* return total_inserted
IngestReturn ==
    /\ ing.pc = "done"
    /\ ing' = Idle
    /\ UNCHANGED <<store, calls, req>>

\* A second run of ingest_data, by another process or request with its own
\* session, kept in req: its first part, for a CSV that makes it go on
SecondStart(c, batch_size, clear_existing) ==
    /\ req = [pc |-> "none"]
    /\ Outcome(Csvs[c]) = "proceed"
    /\ Len(Csvs[c].rows) + (IF clear_existing THEN 0 ELSE Len(store)) <= MaxRecords
    /\ req' = [pc |-> IF clear_existing THEN "clear" ELSE "insert",
               csv |-> c, batch_size |-> batch_size,
               clear_existing |-> clear_existing,
               i |-> 0, total_inserted |-> 0, batch_num |-> 0]
    /\ UNCHANGED <<store, ing, calls>>

\* the second run's delete and commit
SecondClear ==
    /\ req.pc = "clear"
    /\ store' = << >>
    /\ req' = [req EXCEPT !.pc = "insert"]
    /\ calls' = {}
    /\ UNCHANGED ing

\* one turn of the second run's batch loop
SecondBatch ==
    /\ req.pc = "insert"
    /\ req.batch_size >= 1
    /\ LET records == Records(req.csv)
           batch == Batch(records, req.i, req.batch_size)
           next == req.i + req.batch_size
       IN  /\ store' = store \o batch
           /\ req' = IF next < Len(records)
                     THEN [req EXCEPT !.i = next,
                                      !.total_inserted = @ + Len(batch),
                                      !.batch_num = (req.i \div req.batch_size) + 1]
                     ELSE [req EXCEPT !.pc = "done",
                                      !.total_inserted = @ + Len(batch),
                                      !.batch_num = (req.i \div req.batch_size) + 1]
    /\ calls' = {}
    /\ UNCHANGED ing

\* the second run returns total_inserted
SecondReturn ==
    /\ req.pc = "done"
    /\ req' = [pc |-> "none"]
    /\ UNCHANGED <<store, ing, calls>>

\* the batch part of ingest_data for a batch_size below 1: with 0 the
\* division math.ceil(len(records) / batch_size) raises ZeroDivisionError;
\* with a negative one range(0, len(records), batch_size) is empty, no batch
\* is inserted and total_inserted stays 0
IngestNoBatch ==
    /\ ing.pc = "insert"
    /\ ing.batch_size < 1
    /\ ing' = [ing EXCEPT !.pc = IF ing.batch_size = 0 THEN "failed" ELSE "done"]
    /\ UNCHANGED <<store, calls, req>>

\* the exception leaves ingest_data
IngestRaise ==
    /\ ing.pc = "failed"
    /\ ing' = Idle
    /\ UNCHANGED <<store, calls, req>>

(* ------------------------- usage_service.py --------------------------- *)

\* round(float(x), 2): eighths of a kilobit to hundredths, ties to even
RECURSIVE Round2(_)
Round2(k) ==
    IF k < 0 THEN 0 - Round2(0 - k)
    ELSE LET q == (25 * k) \div 2
         IN  IF (25 * k) % 2 = 0 THEN q
             ELSE IF q % 2 = 0 THEN q ELSE q + 1


\* timedelta(days=1), timedelta(days=7), timedelta(days=30)
Days1 == 1

Days7 == 7

Days30 == 30

\* InWindow without the upper bound start_time <= reference_date
InWindowNoUpper(rec, date_30d, ref_date) == rec.start_time >= date_30d

\* the WHERE clause of both aggregate queries and of the user count:
\* start_time >= date_30d AND start_time <= reference_date
InWindow(rec, date_30d, ref_date) ==
    rec.start_time >= date_30d /\ rec.start_time <= ref_date

\* the positions of the rows the WHERE clause keeps
Filtered(rows, ref_date) ==
    {i \in 1..Len(rows) : InWindow(rows[i], ref_date - Days30, ref_date)}

\* CaseFrom with the lower bound of the window excluded
CaseFromStrict(rec, lo, col) == IF rec.start_time > lo THEN rec[col] ELSE 0

\* case((start_time >= lo, column), else_=0) on one row
CaseFrom(rec, lo, col) == IF rec.start_time >= lo THEN rec[col] ELSE 0

\* func.sum(case(...)) over the rows G of one group
RECURSIVE SumCase(_, _, _, _)
SumCase(rows, G, lo, col) ==
    IF G = {} THEN 0
    ELSE LET i == CHOOSE x \in G : TRUE
         IN  CaseFrom(rows[i], lo, col) + SumCase(rows, G \ {i}, lo, col)

\* func.sum(column) over the rows G of one group
RECURSIVE SumCol(_, _, _)
SumCol(rows, G, col) ==
    IF G = {} THEN 0
    ELSE LET i == CHOOSE x \in G : TRUE
         IN  rows[i][col] + SumCol(rows, G \ {i}, col)

\* CountCase with the lower bound of the window excluded
CountCaseStrict(rows, G, lo) == Cardinality({i \in G : rows[i].start_time > lo})

\* func.sum(case((start_time >= lo, 1), else_=0)) over one group
CountCase(rows, G, lo) == Cardinality({i \in G : rows[i].start_time >= lo})

\* the twelve aggregation columns of _build_usage_aggregation, evaluated
\* on the group G of one username
AggRow(rows, username, G, ref_date) ==
    LET date_1d == ref_date - Days1
        date_7d == ref_date - Days7
    IN  [username |-> username,
         upload_1d |-> SumCase(rows, G, date_1d, "upload_kb"),
         download_1d |-> SumCase(rows, G, date_1d, "download_kb"),
         total_1d |-> SumCase(rows, G, date_1d, "total_kb"),
         sessions_1d |-> CountCase(rows, G, date_1d),
         upload_7d |-> SumCase(rows, G, date_7d, "upload_kb"),
         download_7d |-> SumCase(rows, G, date_7d, "download_kb"),
         total_7d |-> SumCase(rows, G, date_7d, "total_kb"),
         sessions_7d |-> CountCase(rows, G, date_7d),
         upload_30d |-> SumCol(rows, G, "upload_kb"),
         download_30d |-> SumCol(rows, G, "download_kb"),
         total_30d |-> SumCol(rows, G, "total_kb"),
         sessions_30d |-> Cardinality(G)]

UsagePeriod(upload_kb, download_kb, total_kb, sessions) ==
    [upload_kb |-> upload_kb, download_kb |-> download_kb,
     total_kb |-> total_kb, sessions |-> sessions]

\* _row_to_usage_periods
RowToUsagePeriods(row) ==
    [usage_1_day |-> UsagePeriod(Round2(row.upload_1d), Round2(row.download_1d),
                                 Round2(row.total_1d), row.sessions_1d),
     usage_7_days |-> UsagePeriod(Round2(row.upload_7d), Round2(row.download_7d),
                                  Round2(row.total_7d), row.sessions_7d),
     usage_30_days |-> UsagePeriod(Round2(row.upload_30d), Round2(row.download_30d),
                                   Round2(row.total_30d), row.sessions_30d)]

\* the usernames the GROUP BY yields: those with a row the WHERE keeps
Universe(rows, ref_date) == {rows[i].username : i \in Filtered(rows, ref_date)}

\* the rows of one username among those the WHERE keeps
GroupOf(rows, username, ref_date) ==
    {i \in Filtered(rows, ref_date) : rows[i].username = username}

\* OrderedDesc with the order reversed: ORDER BY total_30d ASC
OrderedAsc(s) ==
    \A i \in 1..Len(s) : \A j \in 1..Len(s) :
        i < j => s[i].total_30d <= s[j].total_30d

\* ORDER BY total_30d DESC, as a test on a sequence of aggregated rows
OrderedDesc(s) ==
    \A i \in 1..Len(s) : \A j \in 1..Len(s) :
        i < j => s[i].total_30d >= s[j].total_30d

\* every order in which the database may return the grouped rows: the
\* ORDER BY names total_30d alone, so rows with equal totals come in any order
OrderBy(rows, ref_date) ==
    LET U == Universe(rows, ref_date)
        n == Cardinality(U)
        agg == [u \in U |-> AggRow(rows, u, GroupOf(rows, u, ref_date), ref_date)]
        perms == {f \in [1..n -> U] : \A i \in 1..n : \A j \in 1..n :
                                          i # j => f[i] # f[j]}
    IN  {s \in {[k \in 1..n |-> agg[f[k]]] : f \in perms} : OrderedDesc(s)}

\* OffsetLimit falling back to the first page when the offset is past the
\* last row
OffsetLimitWrapped(s, offset, per_page) ==
    IF offset >= Len(s) THEN SubSeq(s, 1, Min(per_page, Len(s)))
    ELSE SubSeq(s, offset + 1, Min(offset + per_page, Len(s)))

\* .offset(offset).limit(per_page) on one ordering
OffsetLimit(s, offset, per_page) ==
    SubSeq(s, offset + 1, Min(offset + per_page, Len(s)))

\* query.all(): every result the page query may give
PageQuery(rows, ref_date, offset, per_page) ==
    {OffsetLimit(s, offset, per_page) : s \in OrderBy(rows, ref_date)}

\* db.query(func.count(func.distinct(username))).filter(...).scalar() or 0
CountUsers(rows, ref_date) == Cardinality(Universe(rows, ref_date))

\* TotalPages with the division rounded down
TotalPagesFloor(total_users, per_page) ==
    IF total_users > 0 THEN total_users \div per_page ELSE 0

\* math.ceil(total_users / per_page) if total_users > 0 else 0
TotalPages(total_users, per_page) ==
    IF total_users > 0 THEN (total_users + per_page - 1) \div per_page ELSE 0

\* RankOf without the offset: the position within the page
RankInPage(offset, k) == (k - 1) + 1

\* rank=offset + idx + 1 (idx counts from 0; the sequence from 1)
RankOf(offset, k) == offset + (k - 1) + 1

\* datetime.isoformat()
IsoFormat(t) == <<"iso", t>>

\* the response get_top_users builds from the count `total_users` and the
\* rows `results` that its two queries returned
TopUsersResponse(reference_date, page, per_page, total_users, results) ==
    LET offset == (page - 1) * per_page
    IN  [page |-> page,
         per_page |-> per_page,
         total_users |-> total_users,
         total_pages |-> TotalPages(total_users, per_page),
         reference_date |-> IsoFormat(reference_date),
         data |-> [k \in 1..Len(results) |->
                     [rank |-> RankOf(offset, k),
                      username |-> results[k].username]
                     @@ RowToUsagePeriods(results[k])]]

\* get_top_users with both queries answered from the same rows, given the
\* rows `results` that query.all() returned
get_top_users(rows, reference_date, page, per_page, results) ==
    TopUsersResponse(reference_date, page, per_page,
                     CountUsers(rows, reference_date), results)

\* the not-found signal of get_user_details
None == [found |-> FALSE]

\* UserExists seeing only usernames that equal the trimmed query
UserExistsTrimmed(rows, username) ==
    \E i \in 1..Len(rows) : rows[i].username = Strip(username)

\* db.query(username).filter(username == username).first() is not None
UserExists(rows, username) == \E i \in 1..Len(rows) : rows[i].username = username

\* UserDetailsResponse with its windows ending a day after the timestamp
UserDetailsResponseDayLate(rows, username, timestamp) ==
    LET G == GroupOf(rows, username, timestamp + 1)
        empty_period == UsagePeriod(0, 0, 0, 0)
    IN  IF G = {}
        THEN [found |-> TRUE, username |-> username,
              timestamp |-> IsoFormat(timestamp),
              usage_1_day |-> empty_period,
              usage_7_days |-> empty_period,
              usage_30_days |-> empty_period]
        ELSE [found |-> TRUE, username |-> username,
              timestamp |-> IsoFormat(timestamp)]
             @@ RowToUsagePeriods(AggRow(rows, username, G, timestamp + 1))

\* get_user_details after the existence check: the aggregate query and the
\* response built from its row
UserDetailsResponse(rows, username, timestamp) ==
    LET G == GroupOf(rows, username, timestamp)
        empty_period == UsagePeriod(0, 0, 0, 0)
    IN  IF G = {}
        THEN [found |-> TRUE, username |-> username,
              timestamp |-> IsoFormat(timestamp),
              usage_1_day |-> empty_period,
              usage_7_days |-> empty_period,
              usage_30_days |-> empty_period]
        ELSE [found |-> TRUE, username |-> username,
              timestamp |-> IsoFormat(timestamp)]
             @@ RowToUsagePeriods(AggRow(rows, username, G, timestamp))

\* get_user_details with both queries answered from the same rows
get_user_details(rows, username, timestamp) ==
    IF ~UserExists(rows, username) THEN None
    ELSE UserDetailsResponse(rows, username, timestamp)

(* ------------------------------ callers ------------------------------- *)

\* two calls belong to one run: the same operation with the same reference
\* instant and per_page, or the same username and timestamp
SameRun(c, d) ==
    /\ c.op = d.op
    /\ IF c.op = "top"
       THEN c.reference_date = d.reference_date /\ c.per_page = d.per_page
       ELSE c.username = d.username /\ c.timestamp = d.timestamp

\* the calls answered from the store as it is now, each with its answer; a
\* call of another run starts the log afresh
Logged(c) ==
    IF (\A d \in calls : SameRun(d, c)) /\ Cardinality(calls \cup {c}) <= MaxCalls
    THEN calls \cup {c}
    ELSE {c}

\* a caller of get_top_users (the endpoint list_top_users with a valid
\* reference_date, or a direct call)
GetTopUsers(reference_date, page, per_page) ==
    /\ \E results \in PageQuery(store, reference_date, (page - 1) * per_page, per_page) :
          calls' = Logged([op |-> "top", reference_date |-> reference_date,
                           page |-> page, per_page |-> per_page,
                           resp |-> get_top_users(store, reference_date, page,
                                                  per_page, results)])
    /\ UNCHANGED <<store, ing, req>>

\* GetUserDetails creating an empty record for a user it does not find
GetUserDetailsCreating(username, timestamp) ==
    /\ calls' = Logged([op |-> "details", username |-> username,
                        timestamp |-> timestamp,
                        resp |-> get_user_details(store, username, timestamp)])
    /\ store' = IF UserExists(store, username) \/ Len(store) >= MaxRecords
                THEN store
                ELSE Append(store, [username |-> username, mac_address |-> Mac1,
                                    start_time |-> timestamp,
                                    usage_time_seconds |-> 0, upload_kb |-> 0,
                                    download_kb |-> 0, total_kb |-> 0])
    /\ UNCHANGED <<ing, req>>

\* a caller of get_user_details
GetUserDetails(username, timestamp) ==
    /\ calls' = Logged([op |-> "details", username |-> username,
                        timestamp |-> timestamp,
                        resp |-> get_user_details(store, username, timestamp)])
    /\ UNCHANGED <<store, ing, req>>

\* a client that asks the listing at an instant and the details of one
\* user at the same instant while the store stays as it is; the two
\* answers are the log
ListingAndDetails(reference_date, page, per_page, username) ==
    /\ \E results \in PageQuery(store, reference_date, (page - 1) * per_page, per_page) :
          calls' = {[op |-> "top", reference_date |-> reference_date,
                     page |-> page, per_page |-> per_page,
                     resp |-> get_top_users(store, reference_date, page,
                                            per_page, results)],
                    [op |-> "details", username |-> username,
                     timestamp |-> reference_date,
                     resp |-> get_user_details(store, username, reference_date)]}
    /\ UNCHANGED <<store, ing, req>>

\* MaxDate taking the earliest start_time
MaxDateEarliest(rows) ==
    CHOOSE t \in {rows[i].start_time : i \in 1..Len(rows)} :
        \A i \in 1..Len(rows) : rows[i].start_time >= t

\* MaxDate taking the start_time of the first record stored
MaxDateOfFirst(rows) == rows[1].start_time

\* db.query(func.max(UsageRecord.start_time)).scalar() on a store that holds
\* a record (on an empty store it is None)
MaxDate(rows) ==
    CHOOSE t \in {rows[i].start_time : i \in 1..Len(rows)} :
        \A j \in 1..Len(rows) : rows[j].start_time <= t

\* raise HTTPException(status_code=..., detail=...)
HTTPException(status_code, detail) == [status_code |-> status_code, detail |-> detail]

\* the endpoint list_top_users called without reference_date; the call
\* starts the log afresh
ListTopUsers(page, per_page) ==
    /\ IF store = << >>
       THEN calls' = {[op |-> "list", page |-> page, per_page |-> per_page,
                       resp |-> HTTPException(400, "No data available")]}
       ELSE LET ref_date == MaxDate(store)
            IN  \E results \in PageQuery(store, ref_date, (page - 1) * per_page,
                                         per_page) :
                    calls' = {[op |-> "list", page |-> page, per_page |-> per_page,
                               resp |-> [status_code |-> 200,
                                         body |-> get_top_users(store, ref_date, page,
                                                                per_page, results)]]}
    /\ UNCHANGED <<store, ing, req>>

IsLeap(y) == y % 4 = 0 /\ (y % 100 # 0 \/ y % 400 = 0)

DaysInMonth(y, m) ==
    IF m = 2 THEN (IF IsLeap(y) THEN 29 ELSE 28)
    ELSE IF m \in {4, 6, 9, 11} THEN 30 ELSE 31

RECURSIVE DaysBeforeMonth(_, _)
DaysBeforeMonth(y, m) ==
    IF m = 1 THEN 0 ELSE DaysBeforeMonth(y, m - 1) + DaysInMonth(y, m - 1)

\* date.toordinal: the days from 0001-01-01, which is day 1
ToOrdinal(y, m, d) ==
    (y - 1) * 365 + (y - 1) \div 4 - (y - 1) \div 100 + (y - 1) \div 400
    + DaysBeforeMonth(y, m) + d

\* the instants of the model count the days from 2022-11-30
Epoch == ToOrdinal(2022, 11, 30)

\* fromisoformat with the day of the month unchecked
FromIsoAnyDay(text) ==
    IF /\ Len(text) = 10
       /\ text[5] = "-"
       /\ text[8] = "-"
       /\ \A k \in {1, 2, 3, 4, 6, 7, 9, 10} : IsDigit(text[k])
    THEN LET y == Decimal(SubSeq(text, 1, 4))
             m == Decimal(SubSeq(text, 6, 7))
             d == Decimal(SubSeq(text, 9, 10))
         IN  IF y >= 1 /\ m \in 1..12
             THEN At(ToOrdinal(y, m, d) - Epoch)
             ELSE BadDate
    ELSE BadDate

\* datetime.fromisoformat on a text of the form YYYY-MM-DD: the instant,
\* or ValueError for any other text and for a date that does not exist
fromisoformat(text) ==
    IF /\ Len(text) = 10
       /\ text[5] = "-"
       /\ text[8] = "-"
       /\ \A k \in {1, 2, 3, 4, 6, 7, 9, 10} : IsDigit(text[k])
    THEN LET y == Decimal(SubSeq(text, 1, 4))
             m == Decimal(SubSeq(text, 6, 7))
             d == Decimal(SubSeq(text, 9, 10))
         IN  IF y >= 1 /\ m \in 1..12 /\ d >= 1 /\ d <= DaysInMonth(y, m)
             THEN At(ToOrdinal(y, m, d) - Epoch)
             ELSE BadDate
    ELSE BadDate

\* the reference_date and timestamp texts sent to the two endpoints: the
\* instant 32, then a month 13, a 31st of November, a day-first date, a
\* date with slashes, a word and the empty text
DateTexts ==
    { <<"2", "0", "2", "3", "-", "0", "1", "-", "0", "1">>,
      <<"2", "0", "2", "2", "-", "1", "3", "-", "0", "1">>,
      <<"2", "0", "2", "2", "-", "1", "1", "-", "3", "1">>,
      <<"3", "1", "-", "1", "2", "-", "2", "0", "2", "2">>,
      <<"2", "0", "2", "2", "/", "1", "2", "/", "3", "1">>,
      <<"t", "o", "d", "a", "y">>,
      << >> }

\* the endpoint list_top_users called with a reference_date; the call
\* starts the log afresh
ListTopUsersAt(reference_date, page, per_page) ==
    /\ LET ref_date == fromisoformat(reference_date)
       IN  IF ~ref_date.ok
           THEN calls' = {[op |-> "list_at", reference_date |-> reference_date,
                           page |-> page, per_page |-> per_page,
                           resp |-> HTTPException(400, "Invalid reference_date format")]}
           ELSE \E results \in PageQuery(store, ref_date.t, (page - 1) * per_page,
                                         per_page) :
                   calls' = {[op |-> "list_at", reference_date |-> reference_date,
                              page |-> page, per_page |-> per_page,
                              resp |-> [status_code |-> 200,
                                        body |-> get_top_users(store, ref_date.t,
                                                               page, per_page,
                                                               results)]]}
    /\ UNCHANGED <<store, ing, req>>

\* the endpoint user_details; the call starts the log afresh
UserDetails(username, timestamp) ==
    /\ LET ts == fromisoformat(timestamp)
           result == get_user_details(store, username, ts.t)
       IN  calls' = {[op |-> "details_at", username |-> username,
                      timestamp |-> timestamp,
                      resp |-> IF ~ts.ok
                               THEN HTTPException(400, "Invalid timestamp format")
                               ELSE IF result = None
                               THEN HTTPException(404, "User not found")
                               ELSE [status_code |-> 200, body |-> result]]}
    /\ UNCHANGED <<store, ing, req>>

\* per_page values that the endpoint's Query(ge=1) would refuse, handed to
\* get_top_users by a caller that does not validate
BadPerPages == {-1, 0}

\* math.ceil(total_users / per_page) if total_users > 0 else 0, for a
\* per_page other than 0 (true division, then the ceiling)
CeilDiv(total_users, per_page) ==
    IF total_users <= 0 THEN 0
    ELSE IF per_page > 0 THEN (total_users + per_page - 1) \div per_page
    ELSE 0 - (total_users \div (0 - per_page))

\* .offset(offset).limit(per_page) as the default SQLite store evaluates
\* it: a negative OFFSET counts as 0, a negative LIMIT as no limit
SqlOffsetLimit(s, offset, per_page) ==
    LET off == IF offset < 0 THEN 0 ELSE offset
    IN  IF per_page < 0 THEN SubSeq(s, off + 1, Len(s))
        ELSE SubSeq(s, off + 1, Min(off + per_page, Len(s)))

\* get_top_users for any integer per_page: the division of line 208 raises
\* ZeroDivisionError when per_page = 0 and a user is in the window;
\* otherwise a TopUsersResponse is returned
get_top_users_any(rows, reference_date, page, per_page, ordering) ==
    LET offset == (page - 1) * per_page
        total_users == CountUsers(rows, reference_date)
        results == SqlOffsetLimit(ordering, offset, per_page)
    IN  IF total_users > 0 /\ per_page = 0
        THEN [raised |-> "ZeroDivisionError"]
        ELSE [raised |-> "nothing",
              page |-> page,
              per_page |-> per_page,
              total_users |-> total_users,
              total_pages |-> CeilDiv(total_users, per_page),
              reference_date |-> IsoFormat(reference_date),
              data |-> [k \in 1..Len(results) |->
                          [rank |-> RankOf(offset, k),
                           username |-> results[k].username]
                          @@ RowToUsagePeriods(results[k])]]

\* a caller of get_top_users that hands it a per_page the endpoint would
\* refuse; the call starts the log afresh
GetTopUsersDirect(reference_date, page, per_page) ==
    /\ \E ordering \in OrderBy(store, reference_date) :
          calls' = {[op |-> "direct", reference_date |-> reference_date,
                     page |-> page, per_page |-> per_page,
                     resp |-> get_top_users_any(store, reference_date, page,
                                                per_page, ordering)]}
    /\ UNCHANGED <<store, ing, req>>

\* no call of the engine is between its two queries
NoReq == [pc |-> "none"]

\* get_top_users up to its first query: the count of the users in the
\* window.  A new call starts the log afresh.
TopCount(reference_date, page, per_page) ==
    /\ req = NoReq
    /\ req' = [pc |-> "counted", reference_date |-> reference_date,
               page |-> page, per_page |-> per_page,
               total_users |-> CountUsers(store, reference_date)]
    /\ calls' = {}
    /\ UNCHANGED <<store, ing>>

\* get_top_users from its second query, the page, to the response
TopPage ==
    /\ req.pc = "counted"
    /\ \E results \in PageQuery(store, req.reference_date,
                                 (req.page - 1) * req.per_page, req.per_page) :
          calls' = {[op |-> "top_read", reference_date |-> req.reference_date,
                     page |-> req.page, per_page |-> req.per_page,
                     resp |-> TopUsersResponse(req.reference_date, req.page,
                                               req.per_page, req.total_users,
                                               results)]}
    /\ req' = NoReq
    /\ UNCHANGED <<store, ing>>

\* get_user_details up to its first query, the existence check; it returns
\* None at once when the check finds no record
DetailsExists(username, timestamp) ==
    /\ req = NoReq
    /\ IF UserExists(store, username)
       THEN /\ req' = [pc |-> "checked", username |-> username,
                       timestamp |-> timestamp]
            /\ calls' = {}
       ELSE /\ req' = NoReq
            /\ calls' = {[op |-> "details_read", username |-> username,
                          timestamp |-> timestamp, resp |-> None]}
    /\ UNCHANGED <<store, ing>>

\* get_user_details from its second query, the aggregation, to the response
DetailsAggregate ==
    /\ req.pc = "checked"
    /\ calls' = {[op |-> "details_read", username |-> req.username,
                  timestamp |-> req.timestamp,
                  resp |-> UserDetailsResponse(store, req.username, req.timestamp)]}
    /\ req' = NoReq
    /\ UNCHANGED <<store, ing>>

(* ----------------------- upload.py, scripts/ingest.py ----------------- *)

ALLOWED_EXTENSIONS == {<<".", "c", "s", "v">>}

ALLOWED_MIME_TYPES ==
    {"text/csv", "application/csv", "application/vnd.ms-excel", "text/plain",
     "application/octet-stream"}

MAX_FILE_SIZE_MB == 50

MAX_FILE_SIZE_BYTES == MAX_FILE_SIZE_MB * 1024 * 1024

\* the lowest batch_size the upload endpoint lets through (ge=100)
MinUploadBatch == 100

\* str.lower on the letters of the file names used here
Lower(s) ==
    [k \in 1..Len(s) |->
        CASE s[k] = "C" -> "c" [] s[k] = "S" -> "s" [] s[k] = "V" -> "v"
          [] s[k] = "D" -> "d" [] OTHER -> s[k]]

\* str.endswith
EndsWith(s, suffix) ==
    /\ Len(s) >= Len(suffix)
    /\ SubSeq(s, Len(s) - Len(suffix) + 1, Len(s)) = suffix

\* an uploaded file: its name ("" when none was sent), its declared MIME
\* type ("" when none), the number of its bytes, whether they decode as
\* UTF-8, what pd.read_csv makes of the text and the table it yields
UploadFile(filename, content_type, size, utf8, read_csv, csv) ==
    [filename |-> filename, content_type |-> content_type,
     contents |-> [size |-> size, utf8 |-> utf8, read_csv |-> read_csv,
                   csv |-> csv]]

\* a validation that raised nothing
NoError == [status_code |-> 0, detail |-> ""]

_validate_file_metadata(file) ==
    IF file.filename = << >>
    THEN HTTPException(400, "No filename provided")
    ELSE IF ~(\E ext \in ALLOWED_EXTENSIONS : EndsWith(Lower(file.filename), ext))
    THEN HTTPException(400, "Invalid file type")
    ELSE IF file.content_type # "" /\ file.content_type \notin ALLOWED_MIME_TYPES
    THEN HTTPException(400, "Invalid MIME type")
    ELSE NoError

\* _validate_csv_content with the check of negative volumes left out
ValidateCsvContentAnySign(contents) ==
    LET rows == contents.csv.rows
        Some(P(_)) == \E k \in 1..Len(rows) : P(rows[k])
        NanUpload(r) == ~r.upload.num
        NanDownload(r) == ~r.download.num
        BadTime(r) == parse_usage_time(r.usage_time) = ValueError
        BadStart(r) == ~r.start_time.ok
        NoUser(r) == Strip(r.username) \in {<< >>, <<"n", "a", "n">>}
        NoMac(r) == Strip(r.mac_address) \in {<< >>, <<"n", "a", "n">>}
    IN  IF contents.size > MAX_FILE_SIZE_BYTES
        THEN HTTPException(400, "File too large")
        ELSE IF contents.size = 0
        THEN HTTPException(400, "Uploaded file is empty")
        ELSE IF ~contents.utf8
        THEN HTTPException(400, "File is not valid UTF-8 text")
        ELSE IF contents.read_csv = "EmptyDataError"
        THEN HTTPException(400, "CSV file contains no data")
        ELSE IF contents.read_csv = "ParserError"
        THEN HTTPException(400, "CSV parsing error")
        ELSE IF ~contents.csv.cols_ok
        THEN HTTPException(400, "Missing required columns")
        ELSE IF rows = << >>
        THEN HTTPException(400, "CSV file has headers but no data rows")
        ELSE IF Some(NanUpload)
        THEN HTTPException(400, "Invalid numeric values in 'upload' column")
        ELSE IF Some(NanDownload)
        THEN HTTPException(400, "Invalid numeric values in 'download' column")
        ELSE IF Some(BadTime)
        THEN HTTPException(400, "Invalid 'usage_time' format")
        ELSE IF Some(BadStart)
        THEN HTTPException(400, "Invalid 'start_time' format")
        ELSE IF Some(NoUser)
        THEN HTTPException(400, "Empty username")
        ELSE IF Some(NoMac)
        THEN HTTPException(400, "Empty mac_address")
        ELSE NoError

_validate_csv_content(contents) ==
    LET rows == contents.csv.rows
        Some(P(_)) == \E k \in 1..Len(rows) : P(rows[k])
        NanUpload(r) == ~r.upload.num
        NanDownload(r) == ~r.download.num
        NegUpload(r) == r.upload.val < 0
        NegDownload(r) == r.download.val < 0
        BadTime(r) == parse_usage_time(r.usage_time) = ValueError
        BadStart(r) == ~r.start_time.ok
        NoUser(r) == Strip(r.username) \in {<< >>, <<"n", "a", "n">>}
        NoMac(r) == Strip(r.mac_address) \in {<< >>, <<"n", "a", "n">>}
    IN  IF contents.size > MAX_FILE_SIZE_BYTES
        THEN HTTPException(400, "File too large")
        ELSE IF contents.size = 0
        THEN HTTPException(400, "Uploaded file is empty")
        ELSE IF ~contents.utf8
        THEN HTTPException(400, "File is not valid UTF-8 text")
        ELSE IF contents.read_csv = "EmptyDataError"
        THEN HTTPException(400, "CSV file contains no data")
        ELSE IF contents.read_csv = "ParserError"
        THEN HTTPException(400, "CSV parsing error")
        ELSE IF ~contents.csv.cols_ok
        THEN HTTPException(400, "Missing required columns")
        ELSE IF rows = << >>
        THEN HTTPException(400, "CSV file has headers but no data rows")
        ELSE IF Some(NanUpload)
        THEN HTTPException(400, "Invalid numeric values in 'upload' column")
        ELSE IF Some(NanDownload)
        THEN HTTPException(400, "Invalid numeric values in 'download' column")
        ELSE IF Some(NegUpload)
        THEN HTTPException(400, "Negative values in 'upload' column")
        ELSE IF Some(NegDownload)
        THEN HTTPException(400, "Negative values in 'download' column")
        ELSE IF Some(BadTime)
        THEN HTTPException(400, "Invalid 'usage_time' format")
        ELSE IF Some(BadStart)
        THEN HTTPException(400, "Invalid 'start_time' format")
        ELSE IF Some(NoUser)
        THEN HTTPException(400, "Empty username")
        ELSE IF Some(NoMac)
        THEN HTTPException(400, "Empty mac_address")
        ELSE NoError

\* the answer of upload_csv once ingest_data has left its first part: 400
\* for a ValueError, the success body for a file without rows, nothing yet
\* while the ingestion goes on
UploadAnswer(outcome) ==
    IF outcome = "ValueError" THEN HTTPException(400, "Data error")
    ELSE IF outcome = "return 0"
    THEN [status_code |-> 200, detail |-> "success", records_ingested |-> 0]
    ELSE NoError

\* POST /api/v1/upload: the two validations, then ingest_data on a copy of
\* the file up to its first write, for a request that arrives while no
\* ingestion runs.  req keeps the request and its answer.
UploadCsv(file, clear_existing, batch_size) ==
    LET meta == _validate_file_metadata(file)
        error == IF meta # NoError THEN meta
                 ELSE _validate_csv_content(file.contents)
    IN  IF error # NoError
        THEN /\ ing.pc = "idle"
             /\ req' = [pc |-> "upload", file |-> file,
                        clear_existing |-> clear_existing, resp |-> error]
             /\ UNCHANGED <<store, ing, calls>>
        ELSE /\ \E c \in 1..Len(Csvs) :
                   /\ Csvs[c] = file.contents.csv
                   /\ IngestBegin(c, batch_size, clear_existing)
             /\ req' = [pc |-> "upload", file |-> file,
                        clear_existing |-> clear_existing,
                        resp |-> UploadAnswer(Outcome(file.contents.csv))]
             /\ UNCHANGED calls

\* the values of --batch-size: argparse takes any integer
BatchSizes == {-1, 0} \cup 1..MaxBatch

\* scripts/ingest.py main: ingest_data with clear_existing = not no_clear,
\* up to its first write.  req keeps what the operator knows: the command
\* line, the records held before the run and how the first part ended.
IngestCli(c, batch_size, no_clear) ==
    /\ IngestBegin(c, batch_size, ~no_clear)
    /\ req' = [pc |-> "cli", csv |-> c, batch_size |-> batch_size,
               clear_existing |-> ~no_clear, before |-> store,
               outcome |-> Outcome(Csvs[c])]
    /\ UNCHANGED calls

FileName == <<"d", ".", "c", "s", "v">>

\* a table of one row
OneRow(u, mac) ==
    [cols_ok |-> TRUE, rows |->
        << RawRow(u, mac, At(31), Hms(0, 1, 0), Num(1), Num(1)) >>]

\* The files sent to the upload endpoint: the tables of Csvs under a good
\* name, an upper-case name and no declared type; then a missing name, a
\* wrong extension, a disallowed type, no bytes, one byte over the limit,
\* the limit itself, bytes that are not UTF-8, a text read_csv cannot
\* read, a negative download, blank and "nan" usernames, a blank MAC.
Uploads ==
    [c \in 1..Len(Csvs) |-> UploadFile(FileName, "text/csv", 1000, TRUE, "ok", Csvs[c])]
    \o << UploadFile(<<"D", ".", "C", "S", "V">>, "", 1000, TRUE, "ok", Csvs[3]),
          UploadFile(<< >>, "text/csv", 1000, TRUE, "ok", Csvs[1]),
          UploadFile(<<"d", ".", "t", "x", "t">>, "text/plain", 1000, TRUE, "ok", Csvs[1]),
          UploadFile(<<"c", "s", "v">>, "text/csv", 1000, TRUE, "ok", Csvs[1]),
          UploadFile(FileName, "image/png", 1000, TRUE, "ok", Csvs[1]),
          UploadFile(FileName, "text/csv", 0, TRUE, "EmptyDataError", Csvs[4]),
          UploadFile(FileName, "text/csv", MAX_FILE_SIZE_BYTES + 1, TRUE, "ok", Csvs[1]),
          UploadFile(FileName, "text/csv", MAX_FILE_SIZE_BYTES, TRUE, "ok", Csvs[1]),
          UploadFile(FileName, "text/csv", 1000, FALSE, "ok", Csvs[1]),
          UploadFile(FileName, "text/csv", 1000, TRUE, "EmptyDataError", Csvs[4]),
          UploadFile(FileName, "text/csv", 1000, TRUE, "ParserError", Csvs[4]),
          UploadFile(FileName, "text/csv", 1000, TRUE, "ok",
                     [cols_ok |-> TRUE, rows |->
                        << RawRow(<<"a">>, Mac1, At(31), Hms(0, 1, 0), Num(1), Num(-1)) >>]),
          UploadFile(FileName, "text/csv", 1000, TRUE, "ok", OneRow(<<" ">>, Mac1)),
          UploadFile(FileName, "text/csv", 1000, TRUE, "ok", OneRow(<<"n", "a", "n">>, Mac1)),
          UploadFile(FileName, "text/csv", 1000, TRUE, "ok", OneRow(<<"a">>, <<" ", " ">>)) >>

Init ==
    /\ store = << >>
    /\ ing = Idle
    /\ calls = {}
    /\ req = NoReq

Next ==
    \/ \E c \in 1..Len(Csvs) : \E batch_size \in 1..MaxBatch :
          \E clear_existing \in BOOLEAN : IngestStart(c, batch_size, clear_existing)
    \/ IngestClear
    \/ IngestBatch
    \/ IngestReturn
    \/ \E reference_date \in RefDates : \E page \in 1..MaxPage :
          \E per_page \in 1..MaxPerPage : GetTopUsers(reference_date, page, per_page)
    \/ \E username \in QueryNames : \E timestamp \in RefDates :
          GetUserDetails(username, timestamp)

Spec == Init /\ [][Next]_vars

\* the ingestion pipeline alone: calls of ingest_data one after the other
NextIngest ==
    \/ \E c \in 1..Len(Csvs) : \E batch_size \in 1..MaxBatch :
          \E clear_existing \in BOOLEAN : IngestStart(c, batch_size, clear_existing)
    \/ IngestClear
    \/ IngestBatch
    \/ IngestReturn

SpecIngest == Init /\ [][NextIngest]_vars

\* the ingestion pipeline and callers of the top-users endpoint that leave
\* reference_date out
NextList ==
    \/ \E c \in 1..Len(Csvs) : \E batch_size \in 1..MaxBatch :
          \E clear_existing \in BOOLEAN : IngestStart(c, batch_size, clear_existing)
    \/ IngestClear
    \/ IngestBatch
    \/ IngestReturn
    \/ \E page \in 1..MaxPage : \E per_page \in 1..MaxPerPage :
          ListTopUsers(page, per_page)

SpecList == Init /\ [][NextList]_vars

\* the ingestion pipeline and callers of get_top_users that do not
\* validate per_page
NextDirect ==
    \/ \E c \in 1..Len(Csvs) : \E batch_size \in 1..MaxBatch :
          \E clear_existing \in BOOLEAN : IngestStart(c, batch_size, clear_existing)
    \/ IngestClear
    \/ IngestBatch
    \/ IngestReturn
    \/ \E reference_date \in RefDates : \E page \in 1..MaxPage :
          \E per_page \in BadPerPages :
              GetTopUsersDirect(reference_date, page, per_page)

SpecDirect == Init /\ [][NextDirect]_vars

\* the ingestion pipeline and the two engine functions query by query, as
\* the sessions of concurrent requests interleave at the store
NextReads ==
    \/ \E c \in 1..Len(Csvs) : \E batch_size \in 1..MaxBatch :
          \E clear_existing \in BOOLEAN : IngestStart(c, batch_size, clear_existing)
    \/ IngestClear
    \/ IngestBatch
    \/ IngestReturn
    \/ \E reference_date \in RefDates : \E page \in 1..MaxPage :
          \E per_page \in 1..MaxPerPage : TopCount(reference_date, page, per_page)
    \/ TopPage
    \/ \E username \in QueryNames : \E timestamp \in RefDates :
          DetailsExists(username, timestamp)
    \/ DetailsAggregate

SpecReads == Init /\ [][NextReads]_vars

\* the ingestion pipeline and callers of the two endpoints of
\* routers/users.py that send a reference_date or timestamp text
NextDated ==
    \/ \E c \in 1..Len(Csvs) : \E batch_size \in 1..MaxBatch :
          \E clear_existing \in BOOLEAN : IngestStart(c, batch_size, clear_existing)
    \/ IngestClear
    \/ IngestBatch
    \/ IngestReturn
    \/ \E reference_date \in DateTexts : \E page \in 1..MaxPage :
          \E per_page \in 1..MaxPerPage :
              ListTopUsersAt(reference_date, page, per_page)
    \/ \E username \in {<<"a">>, <<"c">>} : \E timestamp \in DateTexts :
          UserDetails(username, timestamp)

SpecDated == Init /\ [][NextDated]_vars

\* the characters of the short usage_time texts
TimeChars == {"0", "6", ":", "-", " "}

\* the usage_time texts handed to parse_usage_time: every text of up to
\* MaxTimeLen of these characters, and the texts of the test suite with a
\* plus sign and inner blanks added
TimeTexts ==
    UNION {[1..n -> TimeChars] : n \in 0..MaxTimeLen}
    \cup
    { <<"1", ":", "3", "0", ":", "4", "5">>,
      <<"1", "2", ":", "0", "5", ":", "0", "9">>,
      <<"1", "0", "0", ":", "0", "0", ":", "0", "0">>,
      <<"0", ":", "5", "9", ":", "5", "9">>,
      <<" ", " ", "1", ":", "3", "0", ":", "4", "5", " ", " ">>,
      <<"1", ":", "3", "0">>,
      <<"1", ":", "3", "0", ":", "4", "5", ":", "0", "0">>,
      <<"a", "b", "c", ":", "3", "0", ":", "4", "5">>,
      <<"1", ":", "6", "0", ":", "0", "0">>,
      <<"1", ":", "0", "0", ":", "6", "0">>,
      <<"-", "1", ":", "0", "0", ":", "0", "0">>,
      <<"1", ":", "-", "1", ":", "0", "0">>,
      <<"1", ":", "0", "0", ":", "-", "1">>,
      <<"+", "1", ":", "0", "0", ":", "0", "0">>,
      <<"1", ":", " ", "0", "2", " ", ":", "0", "3">> }

\* a call of parse_usage_time is about to be made on a text
InitParse ==
    /\ store = << >>
    /\ ing = Idle
    /\ calls = {}
    /\ req \in {[pc |-> "text", time_str |-> t] : t \in TimeTexts}

\* the call returns its value or raises
ParseUsageTime ==
    /\ req.pc = "text"
    /\ req' = [pc |-> "parsed", time_str |-> req.time_str,
               result |-> ParseUsageTimeText(req.time_str)]
    /\ UNCHANGED <<store, ing, calls>>

NextParse == ParseUsageTime

SpecParse == InitParse /\ [][NextParse]_vars

\* the ingestion pipeline and clients that follow both query paths at one
\* instant, page by page of the largest size
NextPaths ==
    \/ \E c \in 1..Len(Csvs) : \E batch_size \in 1..MaxBatch :
          \E clear_existing \in BOOLEAN : IngestStart(c, batch_size, clear_existing)
    \/ IngestClear
    \/ IngestBatch
    \/ IngestReturn
    \/ \E reference_date \in RefDates : \E page \in 1..MaxPage :
          \E username \in {<<"a">>, <<"A">>, <<"b">>, <<"c">>} :
              ListingAndDetails(reference_date, page, MaxPerPage, username)

SpecPaths == Init /\ [][NextPaths]_vars

\* two runs of ingest_data with clear_existing, each with its own session,
\* whose commits interleave at the store
NextTwo ==
    \/ \E c \in 1..Len(Csvs) : \E batch_size \in 1..MaxBatch :
          IngestStart(c, batch_size, TRUE)
    \/ IngestClear
    \/ IngestBatch
    \/ IngestReturn
    \/ \E c \in 1..Len(Csvs) : \E batch_size \in 1..MaxBatch :
          SecondStart(c, batch_size, TRUE)
    \/ SecondClear
    \/ SecondBatch
    \/ SecondReturn

SpecTwo == Init /\ [][NextTwo]_vars

\* the two entry points of the ingestion pipeline, the upload endpoint and
\* the command-line script, one run at a time
NextEntry ==
    \/ \E c \in 1..Len(Csvs) : \E batch_size \in BatchSizes :
          \E no_clear \in BOOLEAN : IngestCli(c, batch_size, no_clear)
    \/ \E f \in 1..Len(Uploads) : \E clear_existing \in BOOLEAN :
          UploadCsv(Uploads[f], clear_existing, MinUploadBatch)
    \/ IngestClear
    \/ IngestBatch
    \/ IngestNoBatch
    \/ IngestReturn
    \/ IngestRaise

SpecEntry == Init /\ [][NextEntry]_vars


(* ------------------------------ claims -------------------------------- *)

\* the positions of the records of username u in the trailing window
\* [r - n, r], both ends included
Trailing(rows, u, r, n) ==
    {i \in 1..Len(rows) :
        rows[i].username = u /\ r - n <= rows[i].start_time /\ rows[i].start_time <= r}

\* the usernames with a record in the 30-day window ending at r
Active(rows, r) ==
    {rows[i].username : i \in {j \in 1..Len(rows) :
        r - 30 <= rows[j].start_time /\ rows[j].start_time <= r}}

\* the calls of get_top_users and of get_user_details in the log
TopCalls == {c \in calls : c.op = "top"}

DetailCalls == {c \in calls : c.op = "details"}

\* h hundredths is exactly k eighths
SameVolume(h, k) == 2 * h = 25 * k

\* h hundredths is k eighths rounded to two decimals
RoundedVolume(h, k) == 2 * h - 25 * k <= 1 /\ 25 * k - 2 * h <= 1

\* the UsagePeriod p holds the exact sums and the count of the records W
ExactPeriod(p, rows, W) ==
    /\ SameVolume(p.upload_kb, SumCol(rows, W, "upload_kb"))
    /\ SameVolume(p.download_kb, SumCol(rows, W, "download_kb"))
    /\ SameVolume(p.total_kb, SumCol(rows, W, "total_kb"))
    /\ p.sessions = Cardinality(W)

\* the UsagePeriod p holds the sums of the records W, each rounded to two
\* decimals, and their count
RoundedPeriod(p, rows, W) ==
    /\ RoundedVolume(p.upload_kb, SumCol(rows, W, "upload_kb"))
    /\ RoundedVolume(p.download_kb, SumCol(rows, W, "download_kb"))
    /\ RoundedVolume(p.total_kb, SumCol(rows, W, "total_kb"))
    /\ p.sessions = Cardinality(W)

\* every UsagePeriod returned by a logged call, with the user and the
\* reference instant it was computed for
Returned ==
    UNION {{[u |-> k.resp.data[j].username, r |-> k.reference_date,
             e |-> k.resp.data[j]] : j \in 1..Len(k.resp.data)} :
           k \in TopCalls}
    \cup {[u |-> k.username, r |-> k.timestamp, e |-> k.resp] :
          k \in {d \in DetailCalls : d.resp.found}}

Periods(e) == {e.usage_1_day, e.usage_7_days, e.usage_30_days}

\* C1 as stated: every returned usage_1_day, usage_7_days and usage_30_days
\* equals the sums of upload_kb, download_kb and total_kb and the count of
\* exactly the user's records with R - N days <= start_time <= R.
C1_ExactWindowSums ==
    \A x \in Returned :
        /\ ExactPeriod(x.e.usage_1_day, store, Trailing(store, x.u, x.r, 1))
        /\ ExactPeriod(x.e.usage_7_days, store, Trailing(store, x.u, x.r, 7))
        /\ ExactPeriod(x.e.usage_30_days, store, Trailing(store, x.u, x.r, 30))

\* C1 amended: every returned usage_1_day, usage_7_days and usage_30_days
\* holds the sums of upload_kb, download_kb and total_kb of exactly the
\* user's records with R - N days <= start_time <= R, each sum rounded to
\* two decimals, and the exact count of those records; a window without a
\* record of the user is all zero.
C1_RoundedWindowSums ==
    \A x \in Returned :
        /\ RoundedPeriod(x.e.usage_1_day, store, Trailing(store, x.u, x.r, 1))
        /\ RoundedPeriod(x.e.usage_7_days, store, Trailing(store, x.u, x.r, 7))
        /\ RoundedPeriod(x.e.usage_30_days, store, Trailing(store, x.u, x.r, 30))
        /\ \A n \in {1, 7} :
              Trailing(store, x.u, x.r, n) = {} =>
                  (IF n = 1 THEN x.e.usage_1_day ELSE x.e.usage_7_days)
                      = UsagePeriod(0, 0, 0, 0)

\* a listing entry of a user with a record in the 30-day window, none in
\* the 7-day window, and a 30-day sum that rounding changes
C1_Witness ==
    \E k \in TopCalls : \E j \in 1..Len(k.resp.data) :
        LET e == k.resp.data[j]
            W == Trailing(store, e.username, k.reference_date, 30)
        IN  /\ e.usage_7_days.sessions = 0
            /\ e.usage_30_days.sessions >= 1
            /\ \E i \in W : store[i].start_time = k.reference_date - 30
            /\ \E l \in 1..Len(k.resp.data) :
                  ~SameVolume(k.resp.data[l].usage_30_days.upload_kb,
                              SumCol(store,
                                     Trailing(store, k.resp.data[l].username,
                                              k.reference_date, 30),
                                     "upload_kb"))

\* C2: in every result, sessions(1 day) <= sessions(7 days) <=
\* sessions(30 days) and total_kb(1 day) <= total_kb(7 days) <=
\* total_kb(30 days), for every store ingestion can produce.
C2_Nesting ==
    \A x \in Returned :
        /\ x.e.usage_1_day.sessions <= x.e.usage_7_days.sessions
        /\ x.e.usage_7_days.sessions <= x.e.usage_30_days.sessions
        /\ x.e.usage_1_day.total_kb <= x.e.usage_7_days.total_kb
        /\ x.e.usage_7_days.total_kb <= x.e.usage_30_days.total_kb


\* the pages of two calls of one run do not share a username
NoDuplicate(c, d) ==
    c.page # d.page =>
        \A i \in 1..Len(c.resp.data) : \A j \in 1..Len(d.resp.data) :
            c.resp.data[i].username # d.resp.data[j].username

\* the logged calls fetched every page 1..total_pages
AllPagesFetched ==
    /\ TopCalls # {}
    /\ \A c \in TopCalls : \A p \in 1..c.resp.total_pages :
          \E k \in TopCalls : k.page = p

\* the usernames on the logged pages
Listed ==
    UNION {{k.resp.data[j].username : j \in 1..Len(k.resp.data)} :
           k \in TopCalls}

\* C3: against an unchanged store, the pages 1..total_pages of get_top_users
\* at fixed R and per_page hold no username twice and omit none, also when
\* users have equal 30-day totals.
C3_PaginationComplete ==
    /\ \A k \in TopCalls : \A l \in TopCalls : NoDuplicate(k, l)
    /\ AllPagesFetched =>
          \A c \in TopCalls : Listed = Active(store, c.reference_date)

\* C4: two calls of get_top_users with identical (R, page, per_page)
\* against an unchanged store return identical results, also when users tie
\* on the 30-day total; likewise get_user_details with identical
\* (username, timestamp).
C4_Idempotent ==
    /\ \A k \in TopCalls : \A l \in TopCalls :
          k.page = l.page => k.resp = l.resp
    /\ \A k \in DetailCalls : \A l \in DetailCalls : k.resp = l.resp

\* C5: usage_30_days.total_kb does not increase as rank increases, within
\* every page and across the pages fetched at fixed R and per_page.
C5_RankMonotone ==
    \A k \in TopCalls : \A l \in TopCalls :
        \A i \in 1..Len(k.resp.data) : \A j \in 1..Len(l.resp.data) :
            k.resp.data[i].rank < l.resp.data[j].rank =>
                k.resp.data[i].usage_30_days.total_kb
                    >= l.resp.data[j].usage_30_days.total_kb

\* two pages were fetched, both hold entries, and the 30-day totals on
\* them differ
C5_Witness ==
    \E k \in TopCalls : \E l \in TopCalls :
        /\ k.page < l.page
        /\ Len(k.resp.data) >= 1
        /\ Len(l.resp.data) >= 1
        /\ k.resp.data[1].usage_30_days.total_kb
              > l.resp.data[1].usage_30_days.total_kb

\* the ranks on the page of call c
Ranks(c) == {c.resp.data[i].rank : i \in 1..Len(c.resp.data)}

\* C6: the entry at 0-based position i of page p has rank (p-1)*n + i + 1;
\* ranks on a page are consecutive from (p-1)*n + 1, and the ranks over the
\* pages 1..total_pages are 1..total_users without gap or repeat.
C6_RankOffsetLaw ==
    /\ \A k \in TopCalls :
          LET c == k
              first == (c.page - 1) * c.per_page + 1
              last == Min(c.page * c.per_page, c.resp.total_users)
          IN  /\ \A i \in 1..Len(c.resp.data) :
                    c.resp.data[i].rank = (c.page - 1) * c.per_page + (i - 1) + 1
              /\ Ranks(c) = first..last
    /\ \A k \in TopCalls : \A l \in TopCalls :
          k.page # l.page => Ranks(k) \cap Ranks(l) = {}
    /\ AllPagesFetched =>
          \A c \in TopCalls :
              UNION {Ranks(k) : k \in TopCalls} = 1..c.resp.total_users

\* the pages 1 and 2 of a listing of three users, two to a page
C6_Witness ==
    /\ AllPagesFetched
    /\ \A c \in TopCalls : c.resp.total_users = 3
    /\ \E k \in TopCalls : k.page = 2 /\ Ranks(k) = {3}

\* C7: total_users is the number of distinct usernames with a record in
\* [R - 30 days, R]; total_pages is ceil(total_users / per_page), and 0
\* exactly when total_users is 0.
C7_Totals ==
    \A k \in TopCalls :
        LET c == k
            r == c.resp
        IN  /\ r.total_users = Cardinality(Active(store, c.reference_date))
            /\ r.total_pages * c.per_page >= r.total_users
            /\ (r.total_pages - 1) * c.per_page < r.total_users
            /\ r.total_pages >= 0
            /\ r.total_pages = 0 <=> r.total_users = 0

\* three users counted two to a page, one of them with two records in the
\* window
C7_Witness ==
    \E k \in TopCalls :
        /\ k.resp.total_users = 3
        /\ k.per_page = 2
        /\ k.resp.total_pages = 2
        /\ \E u \in Active(store, k.reference_date) :
              Cardinality(Trailing(store, u, k.reference_date, 30)) = 2

\* C8: the full listing at R (the first page, when per_page covers every
\* user) holds exactly the usernames with a record in [R - 30 days, R],
\* each once; every returned entry has usage_30_days.sessions >= 1, and a
\* user whose records all lie outside the window never appears.
C8_Universe ==
    \A k \in TopCalls :
        LET c == k
            names == {c.resp.data[j].username : j \in 1..Len(c.resp.data)}
        IN  /\ names \subseteq Active(store, c.reference_date)
            /\ Cardinality(names) = Len(c.resp.data)
            /\ \A j \in 1..Len(c.resp.data) : c.resp.data[j].usage_30_days.sessions >= 1
            /\ (c.page = 1 /\ c.per_page >= c.resp.total_users) =>
                   names = Active(store, c.reference_date)

\* a full listing from a store that also holds a record later than R and
\* a user whose records are all older than the window
C8_Witness ==
    \E k \in TopCalls :
        LET c == k
        IN  /\ c.page = 1
            /\ c.resp.total_users >= 1
            /\ Len(c.resp.data) = c.resp.total_users
            /\ \E i \in 1..Len(store) : store[i].start_time > c.reference_date
            /\ \E i \in 1..Len(store) :
                  /\ store[i].start_time < c.reference_date - 30
                  /\ store[i].username \notin Active(store, c.reference_date)

\* C9: in every returned UsagePeriod, total_kb == upload_kb + download_kb
\* on the values as returned, for every store whose records satisfy
\* total_kb = upload_kb + download_kb.
C9_SumDecomposition ==
    (\A i \in 1..Len(store) :
        store[i].total_kb = store[i].upload_kb + store[i].download_kb)
    => \A x \in Returned : \A p \in Periods(x.e) :
           p.total_kb = p.upload_kb + p.download_kb

\* C10: get_user_details returns None if and only if no record at any
\* start_time has exactly that username; a user with records but none in
\* [T - 30 days, T] is found with three all-zero UsagePeriods.
C10_NotFoundOrZero ==
    \A k \in DetailCalls :
        LET c == k
            known == \E i \in 1..Len(store) : store[i].username = c.username
        IN  /\ c.resp = None <=> ~known
            /\ c.resp.found <=> known
            /\ (known /\ Trailing(store, c.username, c.timestamp, 30) = {}) =>
                  /\ c.resp.usage_1_day = UsagePeriod(0, 0, 0, 0)
                  /\ c.resp.usage_7_days = UsagePeriod(0, 0, 0, 0)
                  /\ c.resp.usage_30_days = UsagePeriod(0, 0, 0, 0)

\* a user whose only records are later than T is found with zero usage,
\* while the store is not empty
C10_Witness ==
    \E k \in DetailCalls :
        LET c == k
        IN  /\ c.resp.found
            /\ c.resp.usage_30_days.sessions = 0
            /\ \A i \in 1..Len(store) :
                  store[i].username = c.username => store[i].start_time > c.timestamp

\* C11: a get_top_users request for a page p with
\* (p-1)*per_page >= total_users returns an empty data list and no error,
\* echoes page, per_page and reference_date, and still reports the true
\* total_users and total_pages.
C11_PageBeyondData ==
    \A k \in TopCalls :
        (k.page - 1) * k.per_page >= k.resp.total_users =>
            LET n == Cardinality(Active(store, k.reference_date))
            IN  /\ k.resp.data = << >>
                /\ k.resp.page = k.page
                /\ k.resp.per_page = k.per_page
                /\ k.resp.reference_date = IsoFormat(k.reference_date)
                /\ k.resp.total_users = n
                /\ k.resp.total_pages * k.per_page >= n
                /\ k.resp.total_pages * k.per_page < n + k.per_page

\* page 2 of a listing of two users, two to a page
C11_Witness ==
    \E k \in TopCalls :
        /\ k.page = 2
        /\ k.per_page = 2
        /\ k.resp.total_users = 2
        /\ k.resp.total_pages = 1
        /\ k.resp.data = << >>

\* the calls of the endpoint list_top_users without reference_date
ListCalls == {c \in calls : c.op = "list"}

\* C12: when the caller of the top-users endpoint omits reference_date, an
\* empty store gives the HTTP 400 default-date error and no listing;
\* otherwise the reference instant used and echoed is the maximum start_time
\* over all records of the store.
C12_DefaultReferenceDate ==
    \A k \in ListCalls :
        IF store = << >>
        THEN /\ k.resp.status_code = 400
             /\ DOMAIN k.resp = {"status_code", "detail"}
        ELSE \E t \in {store[i].start_time : i \in 1..Len(store)} :
                /\ \A i \in 1..Len(store) : store[i].start_time <= t
                /\ k.resp.status_code = 200
                /\ k.resp.body.reference_date = IsoFormat(t)
                /\ k.resp.body.total_users = Cardinality(Active(store, t))
                /\ \A j \in 1..Len(k.resp.body.data) :
                      LET e == k.resp.body.data[j]
                      IN  /\ e.username \in Active(store, t)
                          /\ e.usage_30_days.sessions
                                 = Cardinality(Trailing(store, e.username, t, 30))

\* a listing at the default instant from a store whose latest record is not
\* the first one stored, and which holds a user outside the window
C12_Witness ==
    \E k \in ListCalls :
        /\ store # << >>
        /\ k.resp.status_code = 200
        /\ Len(k.resp.body.data) >= 1
        /\ \E i \in 1..Len(store) : store[i].start_time > store[1].start_time
        /\ k.resp.body.total_users
              < Cardinality({store[i].username : i \in 1..Len(store)})

\* the calls of get_top_users made without validation of per_page
DirectCalls == {c \in calls : c.op = "direct"}

\* C13: for every store content, empty or not, get_top_users called with
\* per_page <= 0 signals a rejection: it neither performs the page-count
\* division nor returns a normal listing.
C13_RejectsNonPositivePerPage ==
    \A k \in DirectCalls :
        k.per_page <= 0 =>
            /\ k.resp.raised # "nothing"
            /\ k.resp.raised # "ZeroDivisionError"

\* C14: a query that runs while a clear-existing ingestion is between its
\* commits is answered from the complete earlier data set, from the
\* complete new data set or from an empty store, never from a store that
\* holds only part of the new CSV's records.  (Before the clear commits the
\* store is the earlier data set; this states the time after it.)
C14_NoPartialIngestionObserved ==
    (ing.pc = "insert" /\ ing.clear_existing /\ calls # {}) =>
        \/ store = << >>
        \/ store = Records(ing.csv)

\* the responses of get_top_users and of get_user_details run query by query
TopReads == {c \in calls : c.op = "top_read"}

DetailReads == {c \in calls : c.op = "details_read"}

Max(a, b) == IF a > b THEN a ELSE b

\* C15: get_top_users is a single logical read: total_users and the data
\* page describe the same store state, so
\* len(data) = min(per_page, max(0, total_users - (page-1)*per_page)) in
\* every response, also when the clear or a batch commits during the call;
\* likewise the existence check of get_user_details describes the store its
\* aggregation read (`store` here, the log being emptied by every write).
C15_SingleLogicalRead ==
    /\ \A k \in TopReads :
          Len(k.resp.data)
              = Min(k.per_page,
                    Max(0, k.resp.total_users - (k.page - 1) * k.per_page))
    /\ \A k \in DetailReads :
          k.resp.found <=> UserExists(store, k.username)

\* C16: get_top_users and get_user_details are read-only: whatever the
\* input and the outcome (listing, found, not found, zero result), a step
\* that answers a query (it adds an answer to the log, which every write
\* empties) leaves the stored records as they were, and the ingestion in
\* progress too.
C16_ReadOnly ==
    [][(calls' # {} /\ calls' # calls) => (store' = store /\ ing' = ing)]_vars

\* a not-found answer from a store that holds records, given while an
\* ingestion is between two batches
C16_Witness ==
    /\ Len(store) >= 2
    /\ ing.pc = "insert"
    /\ \E k \in DetailCalls : k.resp = None

\* the positions of the records of username u with start_time exactly t
AtInstant(rows, u, t) ==
    {i \in 1..Len(rows) : rows[i].username = u /\ rows[i].start_time = t}

\* the positions of the records of username u strictly between lo and hi
Inside(rows, u, lo, hi) ==
    {i \in 1..Len(rows) :
        rows[i].username = u /\ lo < rows[i].start_time /\ rows[i].start_time < hi}

\* C17: window bounds are inclusive at both ends and share the upper bound
\* R: the N-day figures (N = 1, 7, 30) count the user's records strictly
\* inside (R - N days, R), those exactly at R - N days and those exactly at
\* R, and no record later than R; so the record sets, and the session
\* counts, nest from 1 day to 7 days to 30 days.
C17_InclusiveBounds ==
    \A x \in Returned :
        LET W(n) == Inside(store, x.u, x.r - n, x.r)
                        \cup AtInstant(store, x.u, x.r - n)
                        \cup AtInstant(store, x.u, x.r)
        IN  /\ x.e.usage_1_day.sessions = Cardinality(W(1))
            /\ x.e.usage_7_days.sessions = Cardinality(W(7))
            /\ x.e.usage_30_days.sessions = Cardinality(W(30))
            /\ RoundedVolume(x.e.usage_1_day.total_kb, SumCol(store, W(1), "total_kb"))
            /\ RoundedVolume(x.e.usage_7_days.total_kb, SumCol(store, W(7), "total_kb"))
            /\ RoundedVolume(x.e.usage_30_days.total_kb, SumCol(store, W(30), "total_kb"))
            /\ \A i \in 1..Len(store) :
                  store[i].start_time > x.r => i \notin W(30)
            /\ W(1) \subseteq W(7)
            /\ W(7) \subseteq W(30)
            /\ x.e.usage_1_day.sessions <= x.e.usage_7_days.sessions
            /\ x.e.usage_7_days.sessions <= x.e.usage_30_days.sessions

\* answers for a user whose only record is exactly 30 days before R and
\* for a user whose only record is exactly 7 days before R
C17_Witness ==
    \E x \in Returned : \E y \in Returned :
        /\ AtInstant(store, x.u, x.r - 30) # {}
        /\ x.e.usage_30_days.sessions = 1
        /\ x.e.usage_7_days.sessions = 0
        /\ AtInstant(store, y.u, y.r - 7) # {}
        /\ y.e.usage_7_days.sessions = 1
        /\ y.e.usage_1_day.sessions = 0

\* the records the store held before the ingestion in progress inserted
\* its first total_inserted records
Earlier(rows, g) == SubSeq(rows, 1, Len(rows) - g.total_inserted)

\* the last n records of the store
Latest(rows, n) == SubSeq(rows, Len(rows) - n + 1, Len(rows))

C19_Batches ==
    /\ [](ing.pc = "done" =>
             LET n == Len(Csvs[ing.csv].rows)
             IN  /\ ing.total_inserted = n
                 /\ ing.batch_num * ing.batch_size >= n
                 /\ (ing.batch_num - 1) * ing.batch_size < n
                 /\ Len(store) >= n
                 /\ \A k \in 1..n :
                       store[Len(store) - n + k] = TransformRow(Csvs[ing.csv].rows[k]))
    /\ [][(ing.pc = "insert" /\ store' # store) =>
             \E m \in 1..ing.batch_size :
                 /\ store' = store \o SubSeq(Records(ing.csv), ing.total_inserted + 1,
                                             ing.total_inserted + m)
                 /\ ing.total_inserted + m <= Len(Records(ing.csv))
                 /\ ing'.total_inserted = ing.total_inserted + m
                 /\ ing'.batch_num = ing.batch_num + 1
                 /\ m < ing.batch_size => ing'.pc = "done"]_vars

\* three rows have gone in as a batch of two and a batch of one
C19_Witness ==
    /\ ing.pc = "done"
    /\ ing.batch_size = 2
    /\ ing.batch_num = 2
    /\ ing.total_inserted = 3

\* C20: after any sequence of ingestions, successful or failing, with or
\* without clear_existing, every record in the store satisfies
\* total_kb == upload_kb + download_kb.
C20_TotalIsSum ==
    \A i \in 1..Len(store) :
        store[i].total_kb = store[i].upload_kb + store[i].download_kb

\* records of two ingestions, one with a negative upload and one with both
\* volumes positive, are in the store and no ingestion is in progress
C20_Witness ==
    /\ ing.pc = "idle"
    /\ Len(store) = 4
    /\ \E i \in 1..Len(store) : store[i].upload_kb < 0
    /\ \E i \in 1..Len(store) : store[i].upload_kb > 0 /\ store[i].download_kb > 0

\* C21: every record the ingestion pipeline creates, through the upload
\* endpoint or through ingest_data called by the command-line script, has
\* upload_kb >= 0 and download_kb >= 0 and a username and a mac_address
\* that are not empty after trimming.
C21_RecordInvariants ==
    \A i \in 1..Len(store) :
        /\ store[i].upload_kb >= 0
        /\ store[i].download_kb >= 0
        /\ Strip(store[i].username) # << >>
        /\ Strip(store[i].mac_address) # << >>

\* a text of blanks only, or the text pandas gives an empty cell
Blank(s) == (\A k \in 1..Len(s) : s[k] = " ") \/ s = <<"n", "a", "n">>

\* the usage_time parts are three numbers, the hours not negative, the
\* minutes and seconds within 0..59
WellFormedTime(parts) ==
    /\ Len(parts) = 3
    /\ \A k \in 1..3 : parts[k].num
    /\ parts[1].val >= 0
    /\ \A k \in 2..3 : parts[k].val \in 0..59

\* the file fails one of the validations the upload endpoint states
C22_Invalid(file) ==
    LET n == Len(file.filename)
        c == file.contents
    IN  \/ n = 0
        \/ n < 4
        \/ Lower(SubSeq(file.filename, n - 3, n)) # <<".", "c", "s", "v">>
        \/ file.content_type \notin ALLOWED_MIME_TYPES \cup {""}
        \/ c.size = 0
        \/ c.size > 50 * 1024 * 1024
        \/ ~c.utf8
        \/ c.read_csv # "ok"
        \/ ~c.csv.cols_ok
        \/ c.csv.rows = << >>
        \/ \E k \in 1..Len(c.csv.rows) :
              LET r == c.csv.rows[k]
              IN  \/ ~r.upload.num
                  \/ ~r.download.num
                  \/ r.upload.val < 0
                  \/ r.download.val < 0
                  \/ ~WellFormedTime(r.usage_time)
                  \/ ~r.start_time.ok
                  \/ Blank(r.username)
                  \/ Blank(r.mac_address)

C25_BadContent(csv) ==
    \/ ~csv.cols_ok
    \/ \E k \in 1..Len(csv.rows) :
          \/ ~csv.rows[k].upload.num
          \/ ~csv.rows[k].download.num
          \/ ~WellFormedTime(csv.rows[k].usage_time)

\* C25: a call of ingest_data on a CSV whose content makes it raise
\* ValueError ends with that error and leaves the store as it was, with
\* clear_existing true as well.
C25_ContentErrorKeepsStore ==
    [][(req' # req /\ req'.pc = "cli" /\ C25_BadContent(Csvs[req'.csv]))
         => (req'.outcome = "ValueError" /\ store' = store /\ ing' = Idle)]_vars

\* a run with clear_existing true on a CSV with a non-numeric upload has
\* raised, and the store still holds the records it held before
C25_Witness ==
    /\ req.pc = "cli"
    /\ req.clear_existing
    /\ \E k \in 1..Len(Csvs[req.csv].rows) : ~Csvs[req.csv].rows[k].upload.num
    /\ req.outcome = "ValueError"
    /\ store # << >>
    /\ store = req.before
    /\ ing = Idle

\* C26: when a run of ingest_data with clear_existing true has ended, by
\* returning or by raising, whatever its batch_size, the store holds exactly
\* the records it held before the run or exactly the records of the CSV,
\* and a returned count is the number of records the run inserted.
C26_AllOrNothing ==
    (req.pc = "cli" /\ req.clear_existing /\ ing.pc \in {"done", "failed"})
        => /\ store = req.before \/ store = Records(req.csv)
           /\ ing.pc = "done" => ing.total_inserted = Len(store)

\* C27: ingest_data on a CSV with the header and no data rows returns 0 and
\* leaves the store as it was, with clear_existing true as well; the upload
\* endpoint answers the same file with HTTP 400 and changes nothing.
C27_HeaderOnly ==
    [][/\ (req' # req /\ req'.pc = "cli" /\ Csvs[req'.csv].cols_ok
              /\ Csvs[req'.csv].rows = << >>)
            => (req'.outcome = "return 0" /\ store' = store /\ ing' = Idle)
       /\ (req' # req /\ req'.pc = "upload" /\ req'.file.contents.read_csv = "ok"
              /\ req'.file.contents.csv.cols_ok
              /\ req'.file.contents.csv.rows = << >>)
            => (req'.resp.status_code = 400 /\ store' = store /\ ing' = ing)]_vars

\* a run with clear_existing true on the header-only CSV has returned 0 and
\* the store still holds the records it held before
C27_Witness ==
    /\ req.pc = "cli"
    /\ req.clear_existing
    /\ Csvs[req.csv].cols_ok
    /\ Csvs[req.csv].rows = << >>
    /\ req.outcome = "return 0"
    /\ store # << >>
    /\ store = req.before
    /\ ing = Idle

\* the date texts that are not an ISO date: a month or a day that does not
\* exist, the parts in another order or with another separator, a word,
\* nothing
C23_Malformed ==
    { <<"2", "0", "2", "2", "-", "1", "3", "-", "0", "1">>,
      <<"2", "0", "2", "2", "-", "1", "1", "-", "3", "1">>,
      <<"3", "1", "-", "1", "2", "-", "2", "0", "2", "2">>,
      <<"2", "0", "2", "2", "/", "1", "2", "/", "3", "1">>,
      <<"t", "o", "d", "a", "y">>,
      << >> }

\* C23: a request with a malformed reference_date or timestamp is answered
\* with HTTP 400 and nothing else: the answer carries no result of
\* get_top_users or get_user_details and is the same whatever the store
\* holds.
C23_MalformedDateRejected ==
    \A k \in calls :
        /\ (k.op = "list_at" /\ k.reference_date \in C23_Malformed)
              => k.resp = [status_code |-> 400,
                           detail |-> "Invalid reference_date format"]
        /\ (k.op = "details_at" /\ k.timestamp \in C23_Malformed)
              => k.resp = [status_code |-> 400,
                           detail |-> "Invalid timestamp format"]

\* a listing was asked for the 31st of November while the store holds
\* records, and was answered 400
C23_Witness ==
    /\ store # << >>
    /\ \E k \in calls :
          /\ k.op = "list_at"
          /\ k.reference_date = <<"2", "0", "2", "2", "-", "1", "1", "-", "3", "1">>
          /\ k.resp.status_code = 400

\* the text without the blanks at its two ends
C24_Trimmed(s) ==
    LET inked == {k \in 1..Len(s) : s[k] # " "}
    IN  IF inked = {} THEN << >>
        ELSE SubSeq(s, CHOOSE a \in inked : \A k \in inked : a <= k,
                       CHOOSE b \in inked : \A k \in inked : b >= k)

\* the part is written as an integer: one run of decimal digits, at most
\* one sign right before it, and nothing but blanks around (the texts
\* int() reads)
C24_IsInteger(part) ==
    \E a \in 1..Len(part) : \E b \in a..Len(part) :
        /\ \A k \in a..b : IsDigit(part[k])
        /\ \A k \in (b + 1)..Len(part) : part[k] = " "
        /\ \/ \A k \in 1..(a - 1) : part[k] = " "
           \/ /\ a >= 2
              /\ part[a - 1] \in {"+", "-"}
              /\ \A k \in 1..(a - 2) : part[k] = " "

RECURSIVE C24_Pow10(_)
C24_Pow10(e) == IF e = 0 THEN 1 ELSE 10 * C24_Pow10(e - 1)

\* the sum over the digit positions D of the digit times its power of ten
RECURSIVE C24_Magnitude(_, _)
C24_Magnitude(part, D) ==
    IF D = {} THEN 0
    ELSE LET k == CHOOSE j \in D : \A h \in D : j <= h
         IN  DigitVal(part[k]) * C24_Pow10(Cardinality(D) - 1)
             + C24_Magnitude(part, D \ {k})

\* the integer a part written as an integer stands for
C24_Value(part) ==
    LET mag == C24_Magnitude(part, {k \in 1..Len(part) : IsDigit(part[k])})
    IN  IF \E k \in 1..Len(part) : part[k] = "-" THEN 0 - mag ELSE mag

\* what the text is worth: the seconds, when its trimmed form is three
\* integers separated by two colons with the hours not negative and the
\* minutes and seconds within 0..59, and ValueError otherwise
C24_Expected(s) ==
    LET t == C24_Trimmed(s)
        colons == {k \in 1..Len(t) : t[k] = ":"}
    IN  IF Cardinality(colons) # 2 THEN ValueError
        ELSE LET i == CHOOSE k \in colons : \A h \in colons : k <= h
                 j == CHOOSE k \in colons : \A h \in colons : k >= h
                 hours == SubSeq(t, 1, i - 1)
                 minutes == SubSeq(t, i + 1, j - 1)
                 seconds == SubSeq(t, j + 1, Len(t))
             IN  IF /\ C24_IsInteger(hours)
                    /\ C24_IsInteger(minutes)
                    /\ C24_IsInteger(seconds)
                    /\ C24_Value(hours) >= 0
                    /\ C24_Value(minutes) \in 0..59
                    /\ C24_Value(seconds) \in 0..59
                 THEN C24_Value(hours) * 3600 + C24_Value(minutes) * 60
                      + C24_Value(seconds)
                 ELSE ValueError

C28_PathsAgree ==
    \A t \in TopCalls : \A d \in DetailCalls :
        t.reference_date = d.timestamp =>
            /\ \A j \in 1..Len(t.resp.data) :
                  t.resp.data[j].username = d.username =>
                      /\ d.resp.found
                      /\ d.resp.usage_1_day = t.resp.data[j].usage_1_day
                      /\ d.resp.usage_7_days = t.resp.data[j].usage_7_days
                      /\ d.resp.usage_30_days = t.resp.data[j].usage_30_days
            /\ (\/ ~d.resp.found
                \/ /\ d.resp.usage_30_days.sessions = 0
                   /\ d.resp.usage_30_days.upload_kb = 0
                   /\ d.resp.usage_30_days.download_kb = 0
                   /\ d.resp.usage_30_days.total_kb = 0)
                  => \A j \in 1..Len(t.resp.data) :
                        t.resp.data[j].username # d.username

\* the listing and the details of a listed user whose 1-day and 30-day
\* periods differ were asked at one instant, and next to them the store
\* holds a user outside the window
C28_Witness ==
    \E t \in TopCalls : \E d \in DetailCalls :
        /\ t.reference_date = d.timestamp
        /\ \E j \in 1..Len(t.resp.data) : t.resp.data[j].username = d.username
        /\ d.resp.found
        /\ d.resp.usage_1_day.sessions >= 1
        /\ d.resp.usage_30_days.sessions > d.resp.usage_1_day.sessions
        /\ t.resp.total_users < Cardinality({store[i].username : i \in 1..Len(store)})

\* the owners of the latest record of the store
C29_LatestOwners ==
    {store[i].username : i \in {j \in 1..Len(store) :
        \A h \in 1..Len(store) : store[h].start_time <= store[j].start_time}}

\* C29: when reference_date is left out and the store holds a record, the
\* instant used is not before any start_time, total_users >= 1,
\* total_pages >= 1, page 1 is not empty, and the owner of the latest record
\* is on the listing (on the page, when the page is the whole listing) with
\* usage_1_day.sessions >= 1.
C29_DefaultListingNotEmpty ==
    \A k \in ListCalls :
        store # << >> =>
            /\ k.resp.status_code = 200
            /\ \E t \in {store[i].start_time : i \in 1..Len(store)} :
                  /\ k.resp.body.reference_date = IsoFormat(t)
                  /\ \A i \in 1..Len(store) : store[i].start_time <= t
            /\ k.resp.body.total_users >= 1
            /\ k.resp.body.total_pages >= 1
            /\ k.page = 1 => Len(k.resp.body.data) >= 1
            /\ \A j \in 1..Len(k.resp.body.data) :
                  k.resp.body.data[j].username \in C29_LatestOwners
                      => k.resp.body.data[j].usage_1_day.sessions >= 1
            /\ (k.page = 1 /\ k.resp.body.total_users <= k.per_page)
                  => \E j \in 1..Len(k.resp.body.data) :
                        k.resp.body.data[j].username \in C29_LatestOwners

\* the whole listing at the default instant is on page 1 and the owner of
\* the latest record is its second entry, with an older record in the 30-day
\* period
C29_Witness ==
    \E k \in ListCalls :
        /\ store # << >>
        /\ k.page = 1
        /\ k.resp.status_code = 200
        /\ k.resp.body.total_users = 2
        /\ Len(k.resp.body.data) = 2
        /\ k.resp.body.data[2].username \in C29_LatestOwners
        /\ k.resp.body.data[2].usage_1_day.sessions >= 1
        /\ k.resp.body.data[2].usage_30_days.sessions
              > k.resp.body.data[2].usage_1_day.sessions

\* C30: when two ingestions with clear_existing of different CSV files run
\* at the same time and both have completed, the store holds exactly the
\* records of the one file or exactly the records of the other, never a
\* mixture or the union.
C30_OneOfTheTwo ==
    (/\ ing.pc = "done" /\ ing.clear_existing
     /\ req.pc = "done" /\ req.clear_existing
     /\ ing.csv # req.csv)
        => (store = Records(ing.csv) \/ store = Records(req.csv))
====
